---- MODULE Spec2Model ----
(***************************************************************************)
(* Model of the tasks plugin of joproulx/outline: the koa handlers of      *)
(* plugins/tasks/server/api/tasks.ts (tasks.create, tasks.update,          *)
(* tasks.delete, tasks.assign, tasks.unassign) over the two paranoid       *)
(* tables task_items and task_assignments.                                 *)
(*                                                                         *)
(* Every handler is a sequence of awaited database calls.  Each awaited    *)
(* call, together with the synchronous code that follows it up to the next *)
(* await, is one step operator  Step(db, q)  that maps the database and    *)
(* the request's local variables to their next values.  Spec runs each     *)
(* handler to completion in one action (requests served one after the      *)
(* other); ConcSpec interleaves the steps of two requests in flight;       *)
(* TaskSpec serves the full request bodies of the task handlers;           *)
(* ClientSpec adds the browser's TasksStore (app/stores), which posts to   *)
(* the handlers and keeps its own copy of the tasks in the variable store. *)
(***************************************************************************)
EXTENDS Integers, Sequences, FiniteSets, TLC

VARIABLES tasks, assignments, req, store

vars == <<tasks, assignments, req, store>>

(***************************************************************************)
(* Bounds of the model.                                                    *)
(***************************************************************************)
MaxTasks == 1
MaxAssignments == 3

\* tasks of the history in TaskSpec
MaxListed == 2

(***************************************************************************)
(* The user directory (users table, read only for this plugin).            *)
(***************************************************************************)
NULL == "null"

Users == {"ann", "bob", "adm", "eve"}

\* an id that names no row of the users table
NoSuchUser == "nobody"

TeamOf(u) == IF u = "eve" THEN "B" ELSE "A"

isAdmin(u) == u = "adm"

\* task ids a request may name; MaxTasks + 1 is never allocated
TaskIds == 1..(MaxTasks + 1)

Titles == {"t1", "t2"}

Reqs == {"r1", "r2"}

(***************************************************************************)
(* Rows.  deletedAt is modelled by whether it is set (paranoid tombstone). *)
(***************************************************************************)
NoTask == [id |-> 0, teamId |-> NULL, createdById |-> NULL, title |-> NULL,
           description |-> NULL, priority |-> NULL, deadline |-> NULL,
           tags |-> NULL, documentId |-> NULL, collectionId |-> NULL,
           deletedAt |-> FALSE]

NoAssignment == [id |-> 0, taskId |-> 0, userId |-> NULL, assignedById |-> NULL,
                 assignedAt |-> 0, deletedAt |-> FALSE]

NoData == [kind |-> "none"]

(***************************************************************************)
(* Responses of the handlers.                                              *)
(***************************************************************************)
TaskNotFound == "Task not found"

TargetNotFound == "Target user not found in your team"

AssignForbidden == "Only task creator or administrators can assign tasks to other users"

UnassignForbidden == "Only task creator or administrators can unassign tasks from other users"

AlreadyAssigned == "User is already assigned to this task"

AssignmentNotFound == "Assignment not found"

\* message of the SequelizeUniqueConstraintError raised by the unique constraint
ValidationError == "Validation error"

AssignmentGone == "Assignment not found"

\* message of the validation error raised by @Length({ max: 255 }) on title
TitleTooLong == "Validation error: Task title must be 255 characters or less"

\* message of the validation error raised by isIn on priority
PriorityNotIn == "Validation error: Validation isIn on priority failed"

\* message of the database error raised by title allowNull: false
TitleNull == "null value in column \"title\" violates not-null constraint"

TaskGone == "Task not found after assignment"

(***************************************************************************)
(* Persistence layer: paranoid finders and writers.                        *)
(***************************************************************************)
\* TaskItem.findOne({ where: { id, teamId } }) on a paranoid model
TaskItem_findOne_anyTeam(ts, id, teamId) ==
    IF \E i \in 1..Len(ts) : ts[i].id = id /\ ~ts[i].deletedAt
    THEN ts[CHOOSE i \in 1..Len(ts) : ts[i].id = id /\ ~ts[i].deletedAt]
    ELSE NoTask

TaskItem_findOne_withDeleted(ts, id, teamId) ==
    IF \E i \in 1..Len(ts) : ts[i].id = id /\ ts[i].teamId = teamId
    THEN ts[CHOOSE i \in 1..Len(ts) : ts[i].id = id /\ ts[i].teamId = teamId]
    ELSE NoTask

TaskItem_findOne(ts, id, teamId) ==
    IF \E i \in 1..Len(ts) :
          ts[i].id = id /\ ts[i].teamId = teamId /\ ~ts[i].deletedAt
    THEN ts[CHOOSE i \in 1..Len(ts) :
               ts[i].id = id /\ ts[i].teamId = teamId /\ ~ts[i].deletedAt]
    ELSE NoTask

\* TaskItem.findByPk(id) on a paranoid model
TaskItem_findByPk(ts, id) ==
    IF \E i \in 1..Len(ts) : ts[i].id = id /\ ~ts[i].deletedAt
    THEN ts[CHOOSE i \in 1..Len(ts) : ts[i].id = id /\ ~ts[i].deletedAt]
    ELSE NoTask

\* User.findOne({ where: { id, teamId } })
User_findOne_anyTeam(id, teamId) == id \in Users

User_findOne(id, teamId) == id \in Users /\ TeamOf(id) = teamId

ActiveFor(as, taskId, userId) ==
    {i \in 1..Len(as) :
        as[i].taskId = taskId /\ as[i].userId = userId /\ ~as[i].deletedAt}

\* TaskAssignment.findOne({ where: { taskId, userId } }) on a paranoid model
TaskAssignment_findOne_blind(as, taskId, userId) == NoAssignment

TaskAssignment_findOne(as, taskId, userId) ==
    IF ActiveFor(as, taskId, userId) # {}
    THEN as[CHOOSE i \in ActiveFor(as, taskId, userId) :
               \A j \in ActiveFor(as, taskId, userId) : i <= j]
    ELSE NoAssignment

\* TaskAssignment.findByPk(id) on a paranoid model
TaskAssignment_findByPk(as, id) ==
    IF id \in 1..Len(as) /\ ~as[id].deletedAt THEN as[id] ELSE NoAssignment

\* the unique constraint on (taskId, userId): it covers every row of the
\* table, tombstoned rows included
task_assignments_task_user_unique_dropped(as, taskId, userId) == TRUE

task_assignments_task_user_unique(as, taskId, userId) ==
    ~\E i \in 1..Len(as) : as[i].taskId = taskId /\ as[i].userId = userId

\* TaskAssignment.createAssignment: the insert, refused by the constraint
\* new Date() at an insert: the clock reads one tick per row inserted so far
now(as) == Len(as) + 1

createAssignment(as, taskId, userId, assignedById) ==
    IF task_assignments_task_user_unique(as, taskId, userId)
    THEN [ok |-> TRUE,
          id |-> Len(as) + 1,
          rows |-> Append(as, [id |-> Len(as) + 1, taskId |-> taskId,
                               userId |-> userId, assignedById |-> assignedById,
                               assignedAt |-> now(as),
                               deletedAt |-> FALSE])]
    ELSE [ok |-> FALSE, id |-> 0, rows |-> as]

\* TaskAssignment.removeAssignment: paranoid destroy of the matching rows
removeAssignment_wholeTask(as, taskId, userId) ==
    [count |-> Cardinality(ActiveFor(as, taskId, userId)),
     rows |-> [i \in 1..Len(as) |->
                  IF as[i].taskId = taskId
                  THEN [as[i] EXCEPT !.deletedAt = TRUE]
                  ELSE as[i]]]

removeAssignment_physical(as, taskId, userId) ==
    [count |-> Cardinality(ActiveFor(as, taskId, userId)),
     rows |-> SelectSeq(as, LAMBDA a :
                  ~(a.taskId = taskId /\ a.userId = userId /\ ~a.deletedAt))]

removeAssignment(as, taskId, userId) ==
    [count |-> Cardinality(ActiveFor(as, taskId, userId)),
     rows |-> [i \in 1..Len(as) |->
                  IF i \in ActiveFor(as, taskId, userId)
                  THEN [as[i] EXCEPT !.deletedAt = TRUE]
                  ELSE as[i]]]

\* task.destroy() on a paranoid instance: sets deletedAt of that one row
destroy(ts, id) ==
    [i \in 1..Len(ts) |->
        IF ts[i].id = id THEN [ts[i] EXCEPT !.deletedAt = TRUE] ELSE ts[i]]

\* the include of the task's assignments (paranoid: tombstones are left out)
assignmentsOf_withDeleted(as, taskId) ==
    SelectSeq(as, LAMBDA a : a.taskId = taskId)

assignmentsOf(as, taskId) ==
    SelectSeq(as, LAMBDA a : a.taskId = taskId /\ ~a.deletedAt)

(***************************************************************************)
(* TaskItem: the enum of priorities, the validators of the model and of    *)
(* the table, and the conversions the handlers apply to the body.          *)
(***************************************************************************)
\* Object.values(TaskPriority)
TaskPriority == {"low", "medium", "high", "urgent"}

MaxTitleLength == 255

\* @Length({ max: 255 }) on title; a validator is not run on null
titleLengthOk(title) == title = NULL \/ Len(title) <= MaxTitleLength

\* validate: { isIn: [Object.values(TaskPriority)] } on priority
priorityIsIn(priority) == priority \in TaskPriority

\* the error of TaskItem.create / task.update for a row, NULL when it is
\* written: model validation first, then the not-null column of the table
rowError(title, priority) ==
    IF ~titleLengthOk(title) THEN TitleTooLong
    ELSE IF ~priorityIsIn(priority) THEN PriorityNotIn
    ELSE IF title = NULL THEN TitleNull
    ELSE NULL

\* "Convert frontend priority values to backend enum values"
backendPriority(priority) ==
    CASE priority = "low" -> "low"
      [] priority = "medium" -> "medium"
      [] priority = "high" -> "high"
      [] OTHER -> "medium"

\* a || b on values that are undefined or non-empty strings
orElse(a, b) == IF a # NULL THEN a ELSE b

\* a date without time matches /^\d{4}-\d{2}-\d{2}$/: ten characters
isDateOnly(deadlineDate) == Len(deadlineDate) = 10

\* the Date parsed from the body, named by its toISOString()
parsedDeadline(deadlineDate) ==
    IF deadlineDate = NULL THEN NULL
    ELSE IF isDateOnly(deadlineDate) THEN deadlineDate \o "T00:00:00.000Z"
    ELSE deadlineDate

\* String.prototype.toLowerCase on the priorities of the model
toLowerCase(priority) ==
    CASE priority = "HIGH" -> "high"
      [] priority = "URGENT" -> "urgent"
      [] OTHER -> priority

\* TaskItem.findAll({ where, order: [["createdAt", "DESC"]] }) on a paranoid
\* model: where has teamId, and documentId / collectionId when given
TaskItem_findAll_withDeleted(ts, teamId, documentId, collectionId) ==
    LET rows == SelectSeq(ts, LAMBDA t :
                    /\ t.teamId = teamId
                    /\ (documentId # NULL => t.documentId = documentId)
                    /\ (collectionId # NULL => t.collectionId = collectionId))
    IN  [i \in 1..Len(rows) |-> rows[Len(rows) + 1 - i]]

TaskItem_findAll(ts, teamId, documentId, collectionId) ==
    LET rows == SelectSeq(ts, LAMBDA t :
                    /\ t.teamId = teamId
                    /\ ~t.deletedAt
                    /\ (documentId # NULL => t.documentId = documentId)
                    /\ (collectionId # NULL => t.collectionId = collectionId))
    IN  [i \in 1..Len(rows) |-> rows[Len(rows) + 1 - i]]

(***************************************************************************)
(* Requests: the body of the call, the authenticated user and the locals   *)
(* of the handler.  pc names the awaited call the handler is about to      *)
(* make.                                                                   *)
(***************************************************************************)
Idle ==
    [op |-> "idle", actor |-> NULL, id |-> 0, userId |-> NULL, title |-> NULL,
     description |-> NULL, priority |-> NULL, dueDate |-> NULL,
     deadline |-> NULL, tags |-> NULL, documentId |-> NULL,
     collectionId |-> NULL,
     pc |-> "idle", task |-> NoTask, included |-> <<>>, targetUserId |-> NULL,
     existingAssignment |-> 0, assignment |-> 0,
     status |-> 0, error |-> NULL, data |-> NoData]

FirstPc(op) ==
    CASE op = "create" -> "create.insert"
      [] op = "update" -> "update.findTask"
      [] op = "delete" -> "delete.findTask"
      [] op = "assign" -> "assign.findTask"
      [] op = "unassign" -> "unassign.findTask"
      [] op = "list" -> "list.findAll"

NewReq(op, actor, id, userId, title) ==
    [Idle EXCEPT !.op = op, !.actor = actor, !.id = id, !.userId = userId,
                 !.title = title, !.pc = FirstPc(op)]

\* the fields of a task in ctx.request.body; NULL is a field left out
NoBody ==
    [title |-> NULL, description |-> NULL, priority |-> NULL, dueDate |-> NULL,
     deadline |-> NULL, tags |-> NULL, documentId |-> NULL,
     collectionId |-> NULL]

WithBody(q, body) ==
    [q EXCEPT !.title = body.title, !.description = body.description,
              !.priority = body.priority, !.dueDate = body.dueDate,
              !.deadline = body.deadline, !.tags = body.tags,
              !.documentId = body.documentId,
              !.collectionId = body.collectionId]

\* ctx.status and ctx.body
Reply(q, status, error, data) ==
    [q EXCEPT !.pc = "done", !.status = status, !.error = error, !.data = data]

Goto(q, pc) == [q EXCEPT !.pc = pc]

\* the "Convert to frontend format" object built from a task instance
convertedTask(task, included) ==
    [kind |-> "task", id |-> task.id, title |-> task.title,
     description |-> task.description,
     priority |-> toLowerCase(task.priority),
     dueDate |-> task.deadline,
     tags |-> orElse(task.tags, "[]"),
     createdById |-> task.createdById,
     assigneeCount |-> Len(included),
     assignees |-> [i \in 1..Len(included) |-> included[i].userId],
     assignments |-> [i \in 1..Len(included) |->
                        [id |-> included[i].id, userId |-> included[i].userId,
                         assignedById |-> included[i].assignedById,
                         assignedAt |-> included[i].assignedAt]]]

(***************************************************************************)
(* tasks.create                                                            *)
(***************************************************************************)
CreateInsert(db, q) ==
    LET deadlineDate == orElse(q.dueDate, q.deadline)
        task == [id |-> Len(db.tasks) + 1, teamId |-> TeamOf(q.actor),
                 createdById |-> q.actor, title |-> q.title,
                 description |-> q.description,
                 priority |-> backendPriority(q.priority),
                 deadline |-> parsedDeadline(deadlineDate),
                 tags |-> orElse(q.tags, "[]"),
                 documentId |-> q.documentId,
                 collectionId |-> q.collectionId,
                 deletedAt |-> FALSE]
        error == rowError(task.title, task.priority)
    IN  IF error # NULL
        THEN [db |-> db, q |-> Reply(q, 400, error, NoData)]
        ELSE [db |-> [db EXCEPT !.tasks = Append(db.tasks, task)],
              q |-> Reply([q EXCEPT !.task = task], 200, NULL,
                          convertedTask(task, <<>>))]

(***************************************************************************)
(* tasks.list                                                              *)
(***************************************************************************)
ListFindAll(db, q) ==
    LET found == TaskItem_findAll(db.tasks, TeamOf(q.actor), q.documentId,
                                  q.collectionId)
    IN  [db |-> db,
         q |-> Reply(q, 200, NULL,
                     [kind |-> "list",
                      tasks |-> [i \in 1..Len(found) |->
                                    convertedTask(found[i],
                                        assignmentsOf(db.assignments,
                                                      found[i].id))]])]

(***************************************************************************)
(* tasks.update                                                            *)
(***************************************************************************)
UpdateFindTask(db, q) ==
    LET task == TaskItem_findOne(db.tasks, q.id, TeamOf(q.actor))
    IN  IF task.id = 0
        THEN [db |-> db, q |-> Reply(q, 404, TaskNotFound, NoData)]
        ELSE [db |-> db,
              q |-> Goto([q EXCEPT !.task = task,
                                   !.included = assignmentsOf(db.assignments, task.id)],
                         "update.save")]

\* the values of task.update({...(title !== undefined && { title }), ...})
\* set on a row: a field left out keeps the value of the row
updated_takesOwnership(row, q) ==
    [row EXCEPT !.title = IF q.title # NULL THEN q.title ELSE @,
                !.createdById = q.actor]

updated_resetsOmitted(row, q) ==
    [row EXCEPT !.title = IF q.title # NULL THEN q.title ELSE @,
                !.description = q.description,
                !.priority = IF q.priority # NULL THEN q.priority ELSE "medium",
                !.deadline = parsedDeadline(orElse(q.dueDate, q.deadline)),
                !.tags = orElse(q.tags, "[]")]

updated(row, q) ==
    [row EXCEPT !.title = IF q.title # NULL THEN q.title ELSE @,
                !.description = IF q.description # NULL THEN q.description ELSE @,
                !.priority = IF q.priority # NULL THEN q.priority ELSE @,
                !.deadline = IF orElse(q.dueDate, q.deadline) # NULL
                             THEN parsedDeadline(orElse(q.dueDate, q.deadline))
                             ELSE @,
                !.tags = IF q.tags # NULL THEN q.tags ELSE @]

\* task.update(...) validates the instance and writes the fields given,
\* then the response is built from the instance
UpdateSave(db, q) ==
    LET task == updated(q.task, q)
        error == rowError(task.title, task.priority)
    IN  IF error # NULL
        THEN [db |-> db, q |-> Reply(q, 400, error, NoData)]
        ELSE [db |-> [db EXCEPT !.tasks =
                         [i \in 1..Len(db.tasks) |->
                             IF db.tasks[i].id = task.id
                             THEN updated(db.tasks[i], q)
                             ELSE db.tasks[i]]],
              q |-> Reply([q EXCEPT !.task = task], 200, NULL,
                          convertedTask(task, q.included))]

(***************************************************************************)
(* tasks.delete                                                            *)
(***************************************************************************)
DeleteFindTask(db, q) ==
    LET task == TaskItem_findOne(db.tasks, q.id, TeamOf(q.actor))
    IN  IF task.id = 0
        THEN [db |-> db, q |-> Reply(q, 404, TaskNotFound, NoData)]
        ELSE [db |-> db, q |-> Goto([q EXCEPT !.task = task], "delete.destroy")]

DeleteDestroy(db, q) ==
    [db |-> [db EXCEPT !.tasks = destroy(db.tasks, q.task.id)],
     q |-> Reply(q, 200, NULL, [kind |-> "deleted", deleted |-> TRUE])]

(***************************************************************************)
(* tasks.assign                                                            *)
(***************************************************************************)
\* "Only task creator or admins can assign tasks to other users"
mayAssignOthers_anyone(task, currentUser) == TRUE

mayAssignOthers(task, currentUser) ==
    task.createdById = currentUser \/ isAdmin(currentUser)

\* the task lookup, then "Determine who to assign" and the authorization
AssignFindTask_policyFirst(db, q) ==
    LET task == TaskItem_findOne(db.tasks, q.id, TeamOf(q.actor))
        targetUserId == IF q.userId = NULL THEN q.actor ELSE q.userId
        q1 == [q EXCEPT !.task = task, !.targetUserId = targetUserId]
    IN  IF q.userId # NULL /\ targetUserId # q.actor
           /\ ~mayAssignOthers(task, q.actor)
        THEN [db |-> db, q |-> Reply(q1, 403, AssignForbidden, NoData)]
        ELSE IF targetUserId # q.actor
        THEN [db |-> db, q |-> Goto(q1, "assign.findUser")]
        ELSE IF task.id = 0
        THEN [db |-> db, q |-> Reply(q, 404, TaskNotFound, NoData)]
        ELSE [db |-> db, q |-> Goto(q1, "assign.findExisting")]

AssignFindTask(db, q) ==
    LET task == TaskItem_findOne(db.tasks, q.id, TeamOf(q.actor))
        targetUserId == IF q.userId = NULL THEN q.actor ELSE q.userId
        q1 == [q EXCEPT !.task = task, !.targetUserId = targetUserId]
    IN  IF task.id = 0
        THEN [db |-> db, q |-> Reply(q, 404, TaskNotFound, NoData)]
        ELSE IF q.userId # NULL /\ targetUserId # q.actor
                /\ ~mayAssignOthers(task, q.actor)
        THEN [db |-> db, q |-> Reply(q1, 403, AssignForbidden, NoData)]
        ELSE IF targetUserId # q.actor
        THEN [db |-> db, q |-> Goto(q1, "assign.findUser")]
        ELSE [db |-> db, q |-> Goto(q1, "assign.findExisting")]

\* "Verify target user exists and is in same team"
AssignFindUser_unchecked(db, q) ==
    [db |-> db, q |-> Goto(q, "assign.findExisting")]

AssignFindUser(db, q) ==
    IF ~User_findOne(q.targetUserId, TeamOf(q.actor))
    THEN [db |-> db, q |-> Reply(q, 404, TargetNotFound, NoData)]
    ELSE [db |-> db, q |-> Goto(q, "assign.findExisting")]

\* "Check if already assigned"
AssignFindExisting(db, q) ==
    LET existingAssignment ==
            TaskAssignment_findOne(db.assignments, q.id, q.targetUserId)
    IN  IF existingAssignment.id # 0
        THEN [db |-> db,
              q |-> Reply([q EXCEPT !.existingAssignment = existingAssignment.id],
                          400, AlreadyAssigned, NoData)]
        ELSE [db |-> db, q |-> Goto(q, "assign.create")]

\* "Create assignment"; a rejected insert throws into the catch block
AssignCreate(db, q) ==
    LET r == createAssignment(db.assignments, q.id, q.targetUserId, q.actor)
    IN  IF ~r.ok
        THEN [db |-> db, q |-> Reply(q, 400, ValidationError, NoData)]
        ELSE [db |-> [db EXCEPT !.assignments = r.rows],
              q |-> Goto([q EXCEPT !.assignment = r.id], "assign.reloadAssignment")]

\* "Load the assignment with user data for response"
AssignReloadAssignment(db, q) ==
    LET assignmentWithUser == TaskAssignment_findByPk(db.assignments, q.assignment)
    IN  IF assignmentWithUser.id = 0
        THEN [db |-> db, q |-> Reply(q, 400, AssignmentGone, NoData)]
        ELSE [db |-> db, q |-> Goto(q, "assign.reloadTask")]

\* "Reload the task with updated assignment data" and the response
AssignReloadTask(db, q) ==
    LET updatedTask == TaskItem_findByPk(db.tasks, q.id)
    IN  IF updatedTask.id = 0
        THEN [db |-> db, q |-> Reply(q, 400, TaskGone, NoData)]
        ELSE [db |-> db,
              q |-> Reply(q, 200, NULL,
                          convertedTask(updatedTask,
                                        assignmentsOf(db.assignments, updatedTask.id)))]

(***************************************************************************)
(* tasks.unassign                                                          *)
(***************************************************************************)
\* "Only task creator or admins can unassign tasks from other users"
mayUnassignOthers_anyone(task, currentUser) == TRUE

mayUnassignOthers(task, currentUser) ==
    task.createdById = currentUser \/ isAdmin(currentUser)

\* the task lookup, then "Determine who to unassign" and the authorization
UnassignFindTask_policyOnExplicit(db, q) ==
    LET task == TaskItem_findOne(db.tasks, q.id, TeamOf(q.actor))
        targetUserId == IF q.userId = NULL THEN q.actor ELSE q.userId
        q1 == [q EXCEPT !.task = task, !.targetUserId = targetUserId]
    IN  IF task.id = 0
        THEN [db |-> db, q |-> Reply(q, 404, TaskNotFound, NoData)]
        ELSE IF q.userId # NULL /\ ~mayUnassignOthers(task, q.actor)
        THEN [db |-> db, q |-> Reply(q1, 403, UnassignForbidden, NoData)]
        ELSE [db |-> db, q |-> Goto(q1, "unassign.findExisting")]

UnassignFindTask(db, q) ==
    LET task == TaskItem_findOne(db.tasks, q.id, TeamOf(q.actor))
        targetUserId == IF q.userId = NULL THEN q.actor ELSE q.userId
        q1 == [q EXCEPT !.task = task, !.targetUserId = targetUserId]
    IN  IF task.id = 0
        THEN [db |-> db, q |-> Reply(q, 404, TaskNotFound, NoData)]
        ELSE IF q.userId # NULL /\ targetUserId # q.actor
                /\ ~mayUnassignOthers(task, q.actor)
        THEN [db |-> db, q |-> Reply(q1, 403, UnassignForbidden, NoData)]
        ELSE [db |-> db, q |-> Goto(q1, "unassign.findExisting")]

\* "Check if assignment exists"
UnassignFindExisting_unchecked(db, q) ==
    [db |-> db, q |-> Goto(q, "unassign.remove")]

UnassignFindExisting(db, q) ==
    LET assignment == TaskAssignment_findOne(db.assignments, q.id, q.targetUserId)
    IN  IF assignment.id = 0
        THEN [db |-> db, q |-> Reply(q, 404, AssignmentNotFound, NoData)]
        ELSE [db |-> db,
              q |-> Goto([q EXCEPT !.existingAssignment = assignment.id],
                         "unassign.remove")]

\* "Remove assignment" and the response
UnassignRemove(db, q) ==
    LET r == removeAssignment(db.assignments, q.id, q.targetUserId)
    IN  [db |-> [db EXCEPT !.assignments = r.rows],
         q |-> Reply(q, 200, NULL,
                     [kind |-> "unassigned", deleted |-> r.count > 0,
                      taskId |-> q.id, userId |-> q.targetUserId])]

(***************************************************************************)
(* A handler: the step at each pc, and the run of a handler to its         *)
(* response.                                                               *)
(***************************************************************************)
Step(db, q) ==
    CASE q.pc = "create.insert" -> CreateInsert(db, q)
      [] q.pc = "list.findAll" -> ListFindAll(db, q)
      [] q.pc = "update.findTask" -> UpdateFindTask(db, q)
      [] q.pc = "update.save" -> UpdateSave(db, q)
      [] q.pc = "delete.findTask" -> DeleteFindTask(db, q)
      [] q.pc = "delete.destroy" -> DeleteDestroy(db, q)
      [] q.pc = "assign.findTask" -> AssignFindTask(db, q)
      [] q.pc = "assign.findUser" -> AssignFindUser(db, q)
      [] q.pc = "assign.findExisting" -> AssignFindExisting(db, q)
      [] q.pc = "assign.create" -> AssignCreate(db, q)
      [] q.pc = "assign.reloadAssignment" -> AssignReloadAssignment(db, q)
      [] q.pc = "assign.reloadTask" -> AssignReloadTask(db, q)
      [] q.pc = "unassign.findTask" -> UnassignFindTask(db, q)
      [] q.pc = "unassign.findExisting" -> UnassignFindExisting(db, q)
      [] q.pc = "unassign.remove" -> UnassignRemove(db, q)

RECURSIVE Run(_, _)
Run(db, q) ==
    IF q.pc = "done" THEN [db |-> db, q |-> q]
    ELSE LET o == Step(db, q) IN Run(o.db, o.q)

DB == [tasks |-> tasks, assignments |-> assignments]

(***************************************************************************)
(* Spec: requests served one after the other.  Each action is one whole    *)
(* handler, from the request to its response.  The response is a function  *)
(* of the database and the request: Run(DB, q).q.                          *)
(***************************************************************************)
Init ==
    /\ tasks = <<>>
    /\ assignments = <<>>
    /\ req = [r \in Reqs |-> Idle]
    /\ store = <<>>

Targets == Users \cup {NoSuchUser, NULL}

Serve(q) ==
    LET o == Run(DB, q)
    IN  /\ tasks' = o.db.tasks
        /\ assignments' = o.db.assignments
        /\ store' = store

Create ==
    /\ Len(tasks) < MaxTasks
    /\ UNCHANGED req
    /\ \E actor \in Users, title \in Titles :
          Serve(NewReq("create", actor, 0, NULL, title))

Update ==
    /\ UNCHANGED req
    /\ \E actor \in Users, id \in TaskIds, title \in Titles \cup {NULL} :
          Serve(NewReq("update", actor, id, NULL, title))

Delete ==
    /\ UNCHANGED req
    /\ \E actor \in Users, id \in TaskIds :
          Serve(NewReq("delete", actor, id, NULL, NULL))

Assign ==
    /\ Len(assignments) < MaxAssignments
    /\ UNCHANGED req
    /\ \E actor \in Users, id \in TaskIds, userId \in Targets :
          Serve(NewReq("assign", actor, id, userId, NULL))

Unassign ==
    /\ UNCHANGED req
    /\ \E actor \in Users, id \in TaskIds, userId \in Targets :
          Serve(NewReq("unassign", actor, id, userId, NULL))

Next == Create \/ Update \/ Delete \/ Assign \/ Unassign

Spec == Init /\ [][Next]_vars

(***************************************************************************)
(* ConcSpec: a race of two requests.  Requests are first served one after  *)
(* the other (the Setup actions, which bring the database to any state a   *)
(* serial history reaches); then each of the two slots takes one request   *)
(* and the awaited steps of the two handlers interleave in any order.      *)
(***************************************************************************)
ConcActors == {"ann", "bob"}

ConcTargets == {NULL, "bob"}

InFlight(q) == q.pc \notin {"idle", "done"}

Quiet == \A r \in Reqs : req[r].pc = "idle"

SetupCreate ==
    /\ Quiet
    /\ Len(tasks) < MaxTasks
    /\ UNCHANGED req
    /\ \E actor \in ConcActors : Serve(NewReq("create", actor, 0, NULL, "t1"))

SetupDelete ==
    /\ Quiet
    /\ UNCHANGED req
    /\ \E actor \in ConcActors, id \in 1..MaxTasks :
          Serve(NewReq("delete", actor, id, NULL, NULL))

SetupAssign ==
    /\ Quiet
    /\ Len(assignments) + 2 < MaxAssignments
    /\ UNCHANGED req
    /\ \E actor \in ConcActors, id \in 1..MaxTasks, userId \in ConcTargets :
          Serve(NewReq("assign", actor, id, userId, NULL))

SetupUnassign ==
    /\ Quiet
    /\ UNCHANGED req
    /\ \E actor \in ConcActors, id \in 1..MaxTasks, userId \in ConcTargets :
          Serve(NewReq("unassign", actor, id, userId, NULL))

\* slot r receives a request
Begin(r, q) ==
    /\ req[r].pc = "idle"
    /\ req' = [req EXCEPT ![r] = q]

BeginDelete(r) ==
    /\ UNCHANGED <<tasks, assignments, store>>
    /\ \E actor \in ConcActors, id \in 1..MaxTasks :
          Begin(r, NewReq("delete", actor, id, NULL, NULL))

BeginAssign(r) ==
    /\ UNCHANGED <<tasks, assignments, store>>
    /\ \E actor \in ConcActors, id \in 1..MaxTasks, userId \in ConcTargets :
          Begin(r, NewReq("assign", actor, id, userId, NULL))

BeginUnassign(r) ==
    /\ UNCHANGED <<tasks, assignments, store>>
    /\ \E actor \in ConcActors, id \in 1..MaxTasks, userId \in ConcTargets :
          Begin(r, NewReq("unassign", actor, id, userId, NULL))

\* one awaited step of the handler of slot r
Advance(r) ==
    LET o == Step(DB, req[r])
    IN  /\ tasks' = o.db.tasks
        /\ assignments' = o.db.assignments
        /\ req' = [req EXCEPT ![r] = o.q]
        /\ store' = store

StepDelete(r) ==
    /\ InFlight(req[r])
    /\ req[r].op = "delete"
    /\ Advance(r)

StepAssign(r) ==
    /\ InFlight(req[r])
    /\ req[r].op = "assign"
    /\ Advance(r)

StepUnassign(r) ==
    /\ InFlight(req[r])
    /\ req[r].op = "unassign"
    /\ Advance(r)

ConcNext ==
    \/ SetupCreate \/ SetupDelete \/ SetupAssign \/ SetupUnassign
    \/ \E r \in Reqs :
          \/ BeginDelete(r) \/ BeginAssign(r) \/ BeginUnassign(r)
          \/ StepDelete(r) \/ StepAssign(r) \/ StepUnassign(r)

ConcSpec == Init /\ [][ConcNext]_vars

(***************************************************************************)
(* TaskSpec: the task store with the full bodies of tasks.create and       *)
(* tasks.update, and tasks.list.  Requests are served one after the other, *)
(* as in Spec; the history has up to MaxListed tasks of two teams.         *)
(***************************************************************************)
TaskActors == {"ann", "eve"}

ListedIds == 1..(MaxListed + 1)

RECURSIVE repeat(_, _)
repeat(c, n) == IF n = 0 THEN "" ELSE repeat(c, n - 1) \o c

\* "a".repeat(256)
LongTitle == repeat("a", MaxTitleLength + 1)

\* "a".repeat(255)
FullTitle == repeat("a", MaxTitleLength)

CreateBodies ==
    { [NoBody EXCEPT !.title = "t1"],
      [NoBody EXCEPT !.title = "t1", !.priority = "urgent"],
      [NoBody EXCEPT !.title = "t1", !.priority = "bogus"],
      [NoBody EXCEPT !.title = ""],
      [NoBody EXCEPT !.title = LongTitle],
      [NoBody EXCEPT !.description = "d1"],
      [NoBody EXCEPT !.title = "t2", !.description = "d1", !.priority = "high",
                     !.dueDate = "2025-12-31", !.tags = "[a]",
                     !.documentId = "doc1", !.collectionId = "col1"] }

UpdateBodies ==
    { [NoBody EXCEPT !.title = "t2"],
      [NoBody EXCEPT !.priority = "urgent", !.description = "d2"],
      [NoBody EXCEPT !.priority = "bogus", !.tags = "[]"] }

CreateTask ==
    /\ Len(tasks) < MaxListed
    /\ UNCHANGED req
    /\ \E actor \in TaskActors, body \in CreateBodies :
          Serve(WithBody(NewReq("create", actor, 0, NULL, NULL), body))

UpdateTask ==
    /\ UNCHANGED req
    /\ \E actor \in TaskActors, id \in ListedIds, body \in UpdateBodies :
          Serve(WithBody(NewReq("update", actor, id, NULL, NULL), body))

DeleteTask ==
    /\ UNCHANGED req
    /\ \E actor \in TaskActors, id \in ListedIds :
          Serve(NewReq("delete", actor, id, NULL, NULL))

AssignTask ==
    /\ Len(assignments) < MaxListed
    /\ UNCHANGED req
    /\ \E actor \in TaskActors, id \in ListedIds :
          Serve(NewReq("assign", actor, id, NULL, NULL))

UnassignTask ==
    /\ UNCHANGED req
    /\ \E actor \in TaskActors, id \in ListedIds :
          Serve(NewReq("unassign", actor, id, NULL, NULL))

ListTasks ==
    /\ UNCHANGED req
    /\ \E actor \in TaskActors, documentId \in {NULL, "doc1"} :
          Serve([NewReq("list", actor, 0, NULL, NULL)
                     EXCEPT !.documentId = documentId])

TaskNext ==
    CreateTask \/ UpdateTask \/ DeleteTask \/ AssignTask \/ UnassignTask
        \/ ListTasks

TaskSpec == Init /\ [][TaskNext]_vars

(***************************************************************************)
(* The browser's TasksStore (app/stores/TasksStore): one signed-in user,   *)
(* whose store maps the ids of the tasks it has loaded to its copy of each *)
(* task.  Every method posts one request and awaits the response, so a     *)
(* method is the run of the handler followed by the method's own code; it  *)
(* yields the database, the store and the message of the error it throws   *)
(* (NULL when it resolves).                                                *)
(***************************************************************************)
\* the user signed in to the browser, and the other member of the team
currentUser == "bob"

OtherUsers == {"ann"}

\* the users a method of the store is called with
StoreTargets == {"bob", "ann", "eve"}

\* client.post: resolves with the body of a success response and rejects
\* with an error that carries the message of any other response
client_post(db, q) ==
    LET o == Run(db, q)
    IN  [db |-> o.db,
         rejected |-> o.q.status # 200,
         error |-> o.q.error,
         data |-> o.q.data]

\* Object.assign(target, source)
Object_assign(target, source) ==
    [f \in DOMAIN target \cup DOMAIN source |->
        IF f \in DOMAIN source THEN source[f] ELSE target[f]]

\* this.add(taskData)
add(st, taskData) ==
    [id \in DOMAIN st \cup {taskData.id} |->
        IF id = taskData.id THEN taskData ELSE st[id]]

\* this.remove(id)
remove(st, id) == [i \in DOMAIN st \ {id} |-> st[i]]

\* taskData && taskData.id
hasId(taskData) == "id" \in DOMAIN taskData

RECURSIVE addAll(_, _)
addAll(st, found) ==
    IF found = <<>> THEN st ELSE addAll(add(st, Head(found)), Tail(found))

fetchPage(db, st) ==
    LET res == client_post(db, NewReq("list", currentUser, 0, NULL, NULL))
    IN  IF res.rejected
        THEN [db |-> res.db, store |-> st, thrown |-> NULL]
        ELSE [db |-> res.db, store |-> addAll(st, res.data.tasks),
              thrown |-> NULL]

TasksStore_create(db, st, title) ==
    LET res == client_post(db, NewReq("create", currentUser, 0, NULL, title))
    IN  IF ~res.rejected /\ hasId(res.data)
        THEN [db |-> res.db, store |-> add(st, res.data), thrown |-> NULL]
        ELSE [db |-> res.db, store |-> st, thrown |-> "Failed to create task"]

TasksStore_update(db, st, id, title) ==
    LET res == client_post(db, NewReq("update", currentUser, id, NULL, title))
    IN  IF ~res.rejected /\ hasId(res.data)
        THEN [db |-> res.db,
              store |-> [st EXCEPT ![id] = Object_assign(st[id], res.data)],
              thrown |-> NULL]
        ELSE [db |-> res.db, store |-> st, thrown |-> "Failed to update task"]

TasksStore_delete(db, st, id) ==
    LET res == client_post(db, NewReq("delete", currentUser, id, NULL, NULL))
    IN  IF res.rejected
        THEN [db |-> res.db, store |-> st, thrown |-> res.error]
        ELSE [db |-> res.db, store |-> remove(st, id), thrown |-> NULL]

\* the assignment data of a response, as assign and unassign copy it
assignmentData(taskData) ==
    [assigneeCount |-> taskData.assigneeCount,
     assignees |-> taskData.assignees,
     assignments |-> taskData.assignments]

TasksStore_assign(db, st, id, userId) ==
    LET res == client_post(db, NewReq("assign", currentUser, id, userId, NULL))
    IN  IF ~res.rejected /\ hasId(res.data)
        THEN [db |-> res.db,
              store |-> [st EXCEPT ![id] =
                            Object_assign(st[id], assignmentData(res.data))],
              thrown |-> NULL]
        ELSE [db |-> res.db, store |-> st, thrown |-> "Failed to assign task"]

TasksStore_unassign(db, st, id, userId) ==
    LET res == client_post(db, NewReq("unassign", currentUser, id, userId, NULL))
    IN  IF ~res.rejected /\ hasId(res.data)
        THEN [db |-> res.db,
              store |-> [st EXCEPT ![id] =
                            Object_assign(st[id], assignmentData(res.data))],
              thrown |-> NULL]
        ELSE [db |-> res.db, store |-> st, thrown |-> "Failed to unassign task"]

(***************************************************************************)
(* ClientSpec: the signed-in user works through the store while another    *)
(* member of the team has requests served directly, so the store's copy    *)
(* can be behind the database.                                             *)
(***************************************************************************)
Called(o) ==
    /\ tasks' = o.db.tasks
    /\ assignments' = o.db.assignments
    /\ store' = o.store

StoreFetchPage ==
    /\ UNCHANGED req
    /\ Called(fetchPage(DB, store))

StoreCreate ==
    /\ Len(tasks) < MaxTasks
    /\ UNCHANGED req
    /\ \E title \in Titles : Called(TasksStore_create(DB, store, title))

StoreUpdate ==
    /\ UNCHANGED req
    /\ \E id \in DOMAIN store : Called(TasksStore_update(DB, store, id, "t2"))

StoreDelete ==
    /\ UNCHANGED req
    /\ \E id \in DOMAIN store : Called(TasksStore_delete(DB, store, id))

StoreAssign ==
    /\ Len(assignments) < MaxAssignments
    /\ UNCHANGED req
    /\ \E id \in DOMAIN store, userId \in StoreTargets :
          Called(TasksStore_assign(DB, store, id, userId))

StoreUnassign ==
    /\ UNCHANGED req
    /\ \E id \in DOMAIN store, userId \in StoreTargets :
          Called(TasksStore_unassign(DB, store, id, userId))

OtherCreate ==
    /\ Len(tasks) < MaxTasks
    /\ UNCHANGED req
    /\ \E actor \in OtherUsers : Serve(NewReq("create", actor, 0, NULL, "t1"))

OtherDelete ==
    /\ UNCHANGED req
    /\ \E actor \in OtherUsers, id \in 1..MaxTasks :
          Serve(NewReq("delete", actor, id, NULL, NULL))

OtherAssign ==
    /\ Len(assignments) < MaxAssignments
    /\ UNCHANGED req
    /\ \E actor \in OtherUsers, id \in 1..MaxTasks, userId \in {NULL, "bob"} :
          Serve(NewReq("assign", actor, id, userId, NULL))

OtherUnassign ==
    /\ UNCHANGED req
    /\ \E actor \in OtherUsers, id \in 1..MaxTasks, userId \in {NULL, "bob"} :
          Serve(NewReq("unassign", actor, id, userId, NULL))

ClientNext ==
    \/ StoreFetchPage \/ StoreCreate \/ StoreUpdate \/ StoreDelete
    \/ StoreAssign \/ StoreUnassign
    \/ OtherCreate \/ OtherDelete \/ OtherAssign \/ OtherUnassign

ClientSpec == Init /\ [][ClientNext]_vars

(***************************************************************************)
(* Vocabulary of the properties.                                           *)
(***************************************************************************)
\* task id names a row of the given team that is not tombstoned
Live(id, team) ==
    id \in 1..Len(tasks) /\ tasks[id].teamId = team /\ ~tasks[id].deletedAt

Privileged(actor, id) == tasks[id].createdById = actor \/ isAdmin(actor)

Effective(actor, userId) == IF userId = NULL THEN actor ELSE userId

AssignReq(actor, id, userId) == NewReq("assign", actor, id, userId, NULL)

UnassignReq(actor, id, userId) == NewReq("unassign", actor, id, userId, NULL)

DeleteReq(actor, id) == NewReq("delete", actor, id, NULL, NULL)

(***************************************************************************)
(* C1.  In every reachable state there is at most one assignment that is   *)
(* not tombstoned for any pair (taskId, userId), whatever create, assign,  *)
(* unassign and delete requests were served and however their steps were   *)
(* interleaved.                                                            *)
(***************************************************************************)
C1_OneActivePerPair ==
    \A i, j \in 1..Len(assignments) :
        ( /\ assignments[i].taskId = assignments[j].taskId
          /\ assignments[i].userId = assignments[j].userId
          /\ ~assignments[i].deletedAt
          /\ ~assignments[j].deletedAt ) => i = j

\* an assignment is active and a later assign of the same pair was refused
C1_Witness ==
    \E r \in Reqs :
        /\ req[r].op = "assign"
        /\ req[r].pc = "done"
        /\ req[r].status = 400
        /\ ActiveFor(assignments, req[r].id, req[r].targetUserId) # {}

(***************************************************************************)
(* C2.  Two assign requests for the same task and the same effective       *)
(* target whose steps interleave in any order: at most one of them is      *)
(* answered with success, and when one is, exactly one active assignment   *)
(* of the pair exists once both are answered.                              *)
(***************************************************************************)
Raced(a, b) ==
    /\ a.op = "assign" /\ b.op = "assign"
    /\ a.pc = "done" /\ b.pc = "done"
    /\ a.task.id # 0 /\ b.task.id # 0
    /\ a.id = b.id
    /\ a.targetUserId = b.targetUserId

C3_DeleteCascades ==
    \A actor \in Users, id \in TaskIds :
        LET o == Run(DB, DeleteReq(actor, id))
        IN  o.q.status = 200 =>
                \A i \in 1..Len(o.db.assignments) :
                    o.db.assignments[i].taskId = id =>
                        TaskAssignment_findByPk(o.db.assignments, i).id = 0

(***************************************************************************)
(* C4.  For update, delete, assign and unassign, a request that names a    *)
(* task of another team is answered exactly as the same request naming an  *)
(* id that no task has: status 404 with "Task not found" and no data.      *)
(***************************************************************************)
TeamScopedOps == {"update", "delete", "assign", "unassign"}

Answer(q) == [status |-> q.status, error |-> q.error, data |-> q.data]

C4_OtherTeamLooksMissing ==
    \A op \in TeamScopedOps, actor \in Users, id \in 1..Len(tasks),
       userId \in Targets, title \in Titles \cup {NULL} :
        tasks[id].teamId # TeamOf(actor) =>
            LET foreign == Run(DB, NewReq(op, actor, id, userId, title))
                missing == Run(DB, NewReq(op, actor, MaxTasks + 1, userId, title))
            IN  /\ Answer(foreign.q) = Answer(missing.q)
                /\ Answer(foreign.q) =
                       [status |-> 404, error |-> TaskNotFound, data |-> NoData]

\* a live task of one team with an active assignment, and a member of the
\* other team whose requests on it are all answered "Task not found"
C4_Witness ==
    \E id \in 1..Len(tasks), actor \in Users :
        /\ tasks[id].teamId # TeamOf(actor)
        /\ ~tasks[id].deletedAt
        /\ \E u \in Users : ActiveFor(assignments, id, u) # {}
        /\ \A op \in TeamScopedOps :
              Run(DB, NewReq(op, actor, id, NULL, NULL)).q.error = TaskNotFound

(***************************************************************************)
(* C5.  A caller who is neither the creator of the task nor an admin and   *)
(* assigns another user V is answered 403 (forbidden) and no assignment is *)
(* created, whether V is a member of the team, a member of another team    *)
(* or no user at all.                                                      *)
(***************************************************************************)
C5_AssignOthersForbidden ==
    \A actor \in Users, id \in TaskIds, v \in Users \cup {NoSuchUser} :
        (Live(id, TeamOf(actor)) /\ ~Privileged(actor, id) /\ v # actor) =>
            LET o == Run(DB, AssignReq(actor, id, v))
            IN  /\ o.q.status = 403
                /\ o.q.error = AssignForbidden
                /\ o.db = DB

\* an unprivileged member is refused for a user of another team and for a
\* user that does not exist
C5_Witness ==
    \E actor \in Users, id \in TaskIds :
        /\ Live(id, TeamOf(actor))
        /\ ~Privileged(actor, id)
        /\ \E v \in Users : TeamOf(v) # TeamOf(actor)
                            /\ Run(DB, AssignReq(actor, id, v)).q.status = 403
        /\ Run(DB, AssignReq(actor, id, NoSuchUser)).q.status = 403

(***************************************************************************)
(* C6.  Whenever task T is live in the team of member U and no active      *)
(* assignment of (T, U) exists, an assign by U without a target succeeds   *)
(* and creates an active assignment of (T, U); also when an earlier        *)
(* assignment of (T, U) was unassigned.                                    *)
(***************************************************************************)
C6_SelfAssignSucceeds ==
    \A u \in Users, id \in TaskIds :
        (Live(id, TeamOf(u)) /\ ActiveFor(assignments, id, u) = {}) =>
            LET o == Run(DB, AssignReq(u, id, NULL))
            IN  /\ o.q.status = 200
                /\ ActiveFor(o.db.assignments, id, u) # {}

(***************************************************************************)
(* C7.  After a successful assign of (T, U), the same assign issued again  *)
(* is answered 400 "User is already assigned to this task" and leaves the  *)
(* assignments as they were: no row added, no row changed.                 *)
(***************************************************************************)
C7_SecondAssignRefused ==
    \A actor \in Users, id \in TaskIds, userId \in Targets :
        LET first == Run(DB, AssignReq(actor, id, userId))
            second == Run(first.db, AssignReq(actor, id, userId))
        IN  first.q.status = 200 =>
                /\ second.q.status = 400
                /\ second.q.error = AlreadyAssigned
                /\ second.db = first.db

\* an assign has succeeded: its row is active, and the request that created
\* it is refused when issued again
C7_Witness ==
    \E i \in 1..Len(assignments) :
        /\ ~assignments[i].deletedAt
        /\ Live(assignments[i].taskId, TeamOf(assignments[i].assignedById))
        /\ Run(DB, AssignReq(assignments[i].assignedById, assignments[i].taskId,
                             assignments[i].userId)).q.error = AlreadyAssigned

(***************************************************************************)
(* C8.  An unassign by a caller allowed to make it (for themselves, or a   *)
(* creator or admin for another user) is answered 404 "Assignment not      *)
(* found" whenever no active assignment of the pair exists, also right     *)
(* after a successful unassign of the same pair; it never answers success. *)
(***************************************************************************)
C8_UnassignNothingIsNotFound ==
    \A actor \in Users, id \in TaskIds, userId \in Targets :
        (Live(id, TeamOf(actor))
            /\ (Effective(actor, userId) = actor \/ Privileged(actor, id))) =>
            LET first == Run(DB, UnassignReq(actor, id, userId))
                second == Run(first.db, UnassignReq(actor, id, userId))
            IN  /\ ActiveFor(assignments, id, Effective(actor, userId)) = {} =>
                      /\ first.q.status = 404
                      /\ first.q.error = AssignmentNotFound
                      /\ first.db = DB
                /\ first.q.status = 200 =>
                      /\ second.q.status = 404
                      /\ second.q.error = AssignmentNotFound

\* an unassign has succeeded (its tombstone is there) and the same unassign
\* is now answered "Assignment not found"
C8_Witness ==
    \E i \in 1..Len(assignments) :
        /\ assignments[i].deletedAt
        /\ Live(assignments[i].taskId, TeamOf(assignments[i].userId))
        /\ Run(DB, UnassignReq(assignments[i].userId, assignments[i].taskId,
                               NULL)).q.error = AssignmentNotFound

(***************************************************************************)
(* C9.  A caller who is neither the creator of the task nor an admin and   *)
(* unassigns another user V is answered 403 (forbidden) and V's assignment *)
(* stays as it was; an unassign of oneself, with the target omitted or     *)
(* given as one's own id, is never answered 403.                           *)
(***************************************************************************)
C9_UnassignOthersForbidden ==
    \A actor \in Users, id \in TaskIds :
        Live(id, TeamOf(actor)) =>
            /\ \A v \in (Users \cup {NoSuchUser}) \ {actor} :
                  ~Privileged(actor, id) =>
                      LET o == Run(DB, UnassignReq(actor, id, v))
                      IN  /\ o.q.status = 403
                          /\ o.q.error = UnassignForbidden
                          /\ o.db = DB
            /\ \A self \in {NULL, actor} :
                  Run(DB, UnassignReq(actor, id, self)).q.status # 403

\* V is assigned, an unprivileged member is refused to unassign V
C9_Witness ==
    \E actor \in Users, v \in Users, id \in TaskIds :
        /\ v # actor
        /\ Live(id, TeamOf(actor))
        /\ ~Privileged(actor, id)
        /\ ActiveFor(assignments, id, v) # {}
        /\ Run(DB, UnassignReq(actor, id, v)).q.status = 403

(***************************************************************************)
(* C10.  When the caller is the creator of the task or an admin, the       *)
(* target V is another member of the caller's team and no active           *)
(* assignment of (T, V) exists, the assign succeeds and the new assignment *)
(* has userId = V and assignedById = the caller.                           *)
(***************************************************************************)
C10_PrivilegedAssignSucceeds ==
    \A actor \in Users, id \in TaskIds, v \in Users :
        ( /\ Live(id, TeamOf(actor))
          /\ Privileged(actor, id)
          /\ v # actor
          /\ TeamOf(v) = TeamOf(actor)
          /\ ActiveFor(assignments, id, v) = {} ) =>
            LET o == Run(DB, AssignReq(actor, id, v))
            IN  /\ o.q.status = 200
                /\ \E i \in ActiveFor(o.db.assignments, id, v) :
                      /\ i > Len(assignments)
                      /\ o.db.assignments[i].assignedById = actor

(***************************************************************************)
(* C11.  When the creator of the task or an admin assigns a user V who is  *)
(* not a member of the caller's team (a member of another team, or no user *)
(* at all), the assign is answered 404 "Target user not found in your      *)
(* team" and no assignment is created.                                     *)
(***************************************************************************)
C11_TargetOutsideTeamNotFound ==
    \A actor \in Users, id \in TaskIds, v \in Users \cup {NoSuchUser} :
        ( /\ Live(id, TeamOf(actor))
          /\ Privileged(actor, id)
          /\ ~(v \in Users /\ TeamOf(v) = TeamOf(actor)) ) =>
            LET o == Run(DB, AssignReq(actor, id, v))
            IN  /\ o.q.status = 404
                /\ o.q.error = TargetNotFound
                /\ o.db = DB

\* the creator of a live task is refused for a member of another team and
\* for an id of no user, while a member of the team is already assigned
C11_Witness ==
    \E id \in 1..Len(tasks), v \in Users :
        /\ Live(id, tasks[id].teamId)
        /\ TeamOf(v) # tasks[id].teamId
        /\ \E u \in Users : ActiveFor(assignments, id, u) # {}
        /\ Run(DB, AssignReq(tasks[id].createdById, id, v)).q.error
               = TargetNotFound
        /\ Run(DB, AssignReq(tasks[id].createdById, id, NoSuchUser)).q.error
               = TargetNotFound

(***************************************************************************)
(* C12.  Once a task is deleted it stays deleted: every update, delete,    *)
(* assign and unassign that names it, by any caller, is answered 404 "Task *)
(* not found" and changes nothing, and no request of the API (a create or  *)
(* a request naming another id included) clears its tombstone.             *)
(***************************************************************************)
\* every request of the router, over the users, ids, targets and titles
AllRequests ==
    {NewReq("create", actor, 0, NULL, title) :
        actor \in Users, title \in Titles}
    \cup {NewReq("list", actor, 0, NULL, NULL) : actor \in Users}
    \cup {NewReq("update", actor, id, NULL, title) :
            actor \in Users, id \in TaskIds, title \in Titles \cup {NULL}}
    \cup {DeleteReq(actor, id) : actor \in Users, id \in TaskIds}
    \cup {AssignReq(actor, id, userId) :
            actor \in Users, id \in TaskIds, userId \in Targets}
    \cup {UnassignReq(actor, id, userId) :
            actor \in Users, id \in TaskIds, userId \in Targets}

C12_DeletedIsTerminal ==
    \A id \in 1..Len(tasks) :
        tasks[id].deletedAt =>
            /\ \A op \in TeamScopedOps, actor \in Users, userId \in Targets,
                  title \in Titles \cup {NULL} :
                  LET o == Run(DB, NewReq(op, actor, id, userId, title))
                  IN  /\ o.q.status = 404
                      /\ o.q.error = TaskNotFound
                      /\ o.db = DB
            /\ \A q \in AllRequests : Run(DB, q).db.tasks[id].deletedAt

\* a deleted task that still has an active assignment: its creator and its
\* assignee are both answered "Task not found"
C12_Witness ==
    \E i \in 1..Len(assignments) :
        /\ ~assignments[i].deletedAt
        /\ tasks[assignments[i].taskId].deletedAt
        /\ Run(DB, NewReq("update", tasks[assignments[i].taskId].createdById,
                          assignments[i].taskId, NULL, "t2")).q.error
               = TaskNotFound
        /\ Run(DB, UnassignReq(assignments[i].userId, assignments[i].taskId,
                               NULL)).q.error = TaskNotFound

(***************************************************************************)
(* C13.  The scenario: creator C has created task T, which has no          *)
(* assignment yet.  Admin M (not C) assigns T to U: success, with          *)
(* userId = U and assignedById = M.  X (not C, not an admin) assigns T to  *)
(* Y: 403.  U unassigns themself: success.  X unassigns U: refused with    *)
(* the given status and message.  C deletes T: success, and no active      *)
(* assignment of T remains.  C, U, X are members of one team, X is not U   *)
(* and Y is not X.                                                         *)
(***************************************************************************)
Scenario(refusedStatus, refusedError) ==
    \A id \in 1..Len(tasks), M, U, X \in Users, Y \in Users \cup {NoSuchUser} :
        LET C == tasks[id].createdById
        IN  ( /\ Live(id, TeamOf(C))
              /\ \A i \in 1..Len(assignments) : assignments[i].taskId # id
              /\ isAdmin(M) /\ M # C /\ TeamOf(M) = TeamOf(C)
              /\ TeamOf(U) = TeamOf(C)
              /\ TeamOf(X) = TeamOf(C) /\ X # C /\ ~isAdmin(X)
              /\ X # U /\ Y # X ) =>
                LET s1 == Run(DB, AssignReq(M, id, U))
                    s2 == Run(s1.db, AssignReq(X, id, Y))
                    s3 == Run(s2.db, UnassignReq(U, id, NULL))
                    s4 == Run(s3.db, UnassignReq(X, id, U))
                    s5 == Run(s4.db, DeleteReq(C, id))
                IN  /\ s1.q.status = 200
                    /\ \E i \in ActiveFor(s1.db.assignments, id, U) :
                          s1.db.assignments[i].assignedById = M
                    /\ s2.q.status = 403
                    /\ s2.q.error = AssignForbidden
                    /\ s2.db = s1.db
                    /\ s3.q.status = 200
                    /\ ActiveFor(s3.db.assignments, id, U) = {}
                    /\ s4.q.status = refusedStatus
                    /\ s4.q.error = refusedError
                    /\ s4.db = s3.db
                    /\ s5.q.status = 200
                    /\ \A i \in 1..Len(s5.db.assignments) :
                          s5.db.assignments[i].taskId = id =>
                              s5.db.assignments[i].deletedAt

\* as stated: X's unassign of U is answered 404 "Assignment not found"
C13_ScenarioAsStated == Scenario(404, AssignmentNotFound)

\* amended: X's unassign of U is answered 403, the refusal of a caller who
\* is neither the creator nor an admin
C13_ScenarioForbidden == Scenario(403, UnassignForbidden)

\* a task just created by a member who is not an admin, in a team that has
\* an admin and a third member: the scenario can start, and its second
\* unassign is refused as forbidden
C13_Witness ==
    \E id \in 1..Len(tasks), M, X \in Users :
        LET C == tasks[id].createdById
            s1 == Run(DB, AssignReq(M, id, C))
            s3 == Run(s1.db, UnassignReq(C, id, NULL))
        IN  /\ Live(id, TeamOf(C))
            /\ \A i \in 1..Len(assignments) : assignments[i].taskId # id
            /\ isAdmin(M) /\ M # C /\ TeamOf(M) = TeamOf(C)
            /\ TeamOf(X) = TeamOf(C) /\ X # C /\ ~isAdmin(X)
            /\ s1.q.status = 200
            /\ s3.q.status = 200
            /\ Run(s3.db, UnassignReq(X, id, C)).q.status = 403

(***************************************************************************)
(* C14.  An assign and a delete of the same task whose steps interleave    *)
(* end as one of the two serial orders: once both are answered and the     *)
(* delete succeeded, either the assign was answered 404 "Task not found"   *)
(* or it was refused before its insert, or the assignment it created is    *)
(* tombstoned; and in no state does a tombstoned task have an active       *)
(* assignment.                                                             *)
(***************************************************************************)
RacedWithDelete(a, d) ==
    /\ a.op = "assign" /\ d.op = "delete"
    /\ a.pc = "done" /\ d.pc = "done"
    /\ a.id = d.id
    /\ d.status = 200

C14_AssignDeleteSerializable ==
    /\ \A a, d \in Reqs :
          RacedWithDelete(req[a], req[d]) =>
              \/ req[a].status = 404 /\ req[a].error = TaskNotFound
              \/ req[a].status \in {403, 404} /\ req[a].assignment = 0
              \/ req[a].status = 400 /\ req[a].assignment = 0
              \/ /\ req[a].status = 200
                 /\ assignments[req[a].assignment].deletedAt
    /\ \A i \in 1..Len(assignments) :
          tasks[assignments[i].taskId].deletedAt => assignments[i].deletedAt

(***************************************************************************)
(* C15.  No request of a member of one team changes a task of another team *)
(* or an assignment of such a task, and none adds an assignment to such a  *)
(* task: create, update, delete, assign and unassign, whatever id and      *)
(* target they name.                                                       *)
(***************************************************************************)
C15_OtherTeamUntouched ==
    \A q \in AllRequests :
        LET o == Run(DB, q)
        IN  /\ \A i \in 1..Len(tasks) :
                  tasks[i].teamId # TeamOf(q.actor) => o.db.tasks[i] = tasks[i]
            /\ \A j \in 1..Len(assignments) :
                  tasks[assignments[j].taskId].teamId # TeamOf(q.actor) =>
                      o.db.assignments[j] = assignments[j]
            /\ \A j \in (Len(assignments) + 1)..Len(o.db.assignments) :
                  o.db.tasks[o.db.assignments[j].taskId].teamId
                      = TeamOf(q.actor)

\* a live task of one team with an active assignment, and a member of the
\* other team whose update, delete, assign and unassign of it change nothing
C15_Witness ==
    \E id \in 1..Len(tasks), actor, u \in Users :
        /\ tasks[id].teamId # TeamOf(actor)
        /\ ~tasks[id].deletedAt
        /\ ActiveFor(assignments, id, u) # {}
        /\ Run(DB, NewReq("update", actor, id, NULL, "t2")).db = DB
        /\ Run(DB, DeleteReq(actor, id)).db = DB
        /\ Run(DB, AssignReq(actor, id, NULL)).db = DB
        /\ Run(DB, UnassignReq(actor, id, u)).db = DB

(***************************************************************************)
(* Requests with a body.                                                   *)
(***************************************************************************)
CreateReq(actor, body) == WithBody(NewReq("create", actor, 0, NULL, NULL), body)

UpdateReq(actor, id, body) ==
    WithBody(NewReq("update", actor, id, NULL, NULL), body)

ListReq(actor, documentId) ==
    [NewReq("list", actor, 0, NULL, NULL) EXCEPT !.documentId = documentId]

\* values of priority that are none of low, medium, high, urgent
InvalidPriorities == {"bogus", "HIGH", ""}

(***************************************************************************)
(* C16.  A create whose priority is none of low, medium, high, urgent is   *)
(* answered with a validation error (status 400) and inserts no task.      *)
(***************************************************************************)
C16_InvalidPriorityRejected ==
    \A actor \in Users, title \in Titles, priority \in InvalidPriorities :
        LET o == Run(DB, CreateReq(actor, [NoBody EXCEPT !.title = title,
                                                        !.priority = priority]))
        IN  /\ o.q.status = 400
            /\ o.db = DB

(***************************************************************************)
(* C17.  A create with priority low, medium, high or urgent succeeds, and  *)
(* the task it stores and the task it returns have that priority; with no  *)
(* priority in the body the task has priority medium.                      *)
(***************************************************************************)
C17_PriorityStored ==
    \A actor \in Users, title \in Titles, priority \in TaskPriority \cup {NULL} :
        LET o == Run(DB, CreateReq(actor, [NoBody EXCEPT !.title = title,
                                                        !.priority = priority]))
            expected == IF priority = NULL THEN "medium" ELSE priority
        IN  /\ o.q.status = 200
            /\ o.q.data.priority = expected
            /\ Len(o.db.tasks) = Len(tasks) + 1
            /\ o.db.tasks[Len(o.db.tasks)].priority = expected

(***************************************************************************)
(* C18.  A create with no title, with the empty title or with a title of   *)
(* more than 255 characters is answered with an error (status 400) and     *)
(* inserts no task; a create with a title of 1 to 255 characters succeeds  *)
(* and stores the title.                                                   *)
(***************************************************************************)
TitleInputs == {NULL, "", "t", "t1", FullTitle, LongTitle}

titleAllowed(title) ==
    title # NULL /\ Len(title) >= 1 /\ Len(title) <= MaxTitleLength

C18_TitleValidated ==
    \A actor \in Users, title \in TitleInputs :
        LET o == Run(DB, CreateReq(actor, [NoBody EXCEPT !.title = title]))
        IN  IF titleAllowed(title)
            THEN /\ o.q.status = 200
                 /\ Len(o.db.tasks) = Len(tasks) + 1
                 /\ o.db.tasks[Len(o.db.tasks)].title = title
            ELSE /\ o.q.status = 400
                 /\ o.db = DB

(***************************************************************************)
(* C19.  An update that succeeds sets each of title, description,          *)
(* priority, deadline and tags that the body supplies to the supplied      *)
(* value, and leaves every field the body omits, every other field of the  *)
(* task, every other task and every assignment as they were; the response  *)
(* shows the task as stored.  An update that is refused changes nothing.   *)
(***************************************************************************)
UpdateInputs ==
    [title : {NULL, "t2"}, description : {NULL, "d2"},
     priority : {NULL, "urgent", "bogus"}, dueDate : {NULL, "2026-01-01"},
     deadline : {NULL, "2026-02-02T10:00:00.000Z"}, tags : {NULL, "[]"},
     documentId : {NULL}, collectionId : {NULL}]

supplied(value, old) == IF value # NULL THEN value ELSE old

listedIds(o) == {o.q.data.tasks[i].id : i \in 1..Len(o.q.data.tasks)}

C20_ListLiveTeamTasks ==
    \A actor \in Users, documentId \in {NULL, "doc1"} :
        LET o == Run(DB, ListReq(actor, documentId))
        IN  /\ o.q.status = 200
            /\ o.db = DB
            /\ listedIds(o) =
                  {id \in 1..Len(tasks) :
                      /\ tasks[id].teamId = TeamOf(actor)
                      /\ ~tasks[id].deletedAt
                      /\ documentId # NULL => tasks[id].documentId = documentId}
            /\ Cardinality(listedIds(o)) = Len(o.q.data.tasks)

\* the caller's team has a live task and a tombstoned one, or there is a
\* live task of another team: the list has the one live task of the team
C20_Witness ==
    \E actor \in Users, a, b \in 1..Len(tasks) :
        /\ tasks[a].teamId = TeamOf(actor) /\ ~tasks[a].deletedAt
        /\ a # b
        /\ tasks[b].deletedAt \/ tasks[b].teamId # TeamOf(actor)
        /\ listedIds(Run(DB, ListReq(actor, NULL))) = {a}

(***************************************************************************)
(* C21.  A successful assign returns the task with the full list of its    *)
(* active assignments read after the insert: the list holds the new        *)
(* assignment, holds every active assignment of the task and no tombstoned *)
(* one, and assigneeCount equals the number of listed assignments and the  *)
(* number of listed assignees.                                             *)
(***************************************************************************)
listedAssignments(data) ==
    {data.assignments[k].id : k \in 1..Len(data.assignments)}

rowIds(as) == {as[i].id : i \in 1..Len(as)}

C22_RowsOnlyGrow ==
    [][ /\ Len(assignments') >= Len(assignments)
        /\ rowIds(assignments) \subseteq rowIds(assignments')
        /\ \A i \in 1..Len(assignments) :
              \E j \in 1..Len(assignments') :
                  /\ assignments'[j].id = assignments[i].id
                  /\ assignments'[j].taskId = assignments[i].taskId
                  /\ assignments'[j].userId = assignments[i].userId ]_vars

\* an unassign has acted: its row is still there as a tombstone, next to
\* a row inserted after it
C22_Witness ==
    \E i, j \in 1..Len(assignments) :
        /\ i < j
        /\ assignments[i].deletedAt
        /\ ~assignments[j].deletedAt

(***************************************************************************)
(* C23.  When the API rejects the call of TasksStore.assign, the method    *)
(* rejects with the error of the API, and the task kept in the store is as *)
(* it was before the call: still present, with the same assignees,         *)
(* assignments and assigneeCount.                                          *)
(***************************************************************************)
C23_AssignRejectionPassedOn ==
    \A id \in DOMAIN store, userId \in StoreTargets :
        LET res == client_post(DB, AssignReq(currentUser, id, userId))
            called == TasksStore_assign(DB, store, id, userId)
        IN  res.rejected =>
                /\ called.thrown = res.error
                /\ id \in DOMAIN called.store
                /\ called.store[id] = store[id]

(***************************************************************************)
(* C24.  In assign and in unassign the task lookup is decided first: when  *)
(* the task is not visible to the caller (no such id, another team's task, *)
(* a deleted task) the answer is 404 "Task not found" whatever the target, *)
(* the caller's role and the existing assignments are; the handler ends at *)
(* the task lookup, so the target user is never looked up, and nothing is  *)
(* written.                                                                *)
(***************************************************************************)
\* the awaited steps a handler takes from q to its response
RECURSIVE Path(_, _)
Path(db, q) ==
    IF q.pc = "done" THEN <<>>
    ELSE LET o == Step(db, q) IN <<q.pc>> \o Path(o.db, o.q)

C24_TaskLookupFirst ==
    \A op \in {"assign", "unassign"}, actor \in Users, id \in TaskIds,
       userId \in Targets :
        ~Live(id, TeamOf(actor)) =>
            LET q == NewReq(op, actor, id, userId, NULL)
                o == Run(DB, q)
            IN  /\ Answer(o.q) =
                       [status |-> 404, error |-> TaskNotFound, data |-> NoData]
                /\ Path(DB, q) = <<FirstPc(op)>>
                /\ o.db = DB

\* a deleted task that still has an active assignment of V: an admin's and
\* an unprivileged member's assign and unassign of V, and an assign of a
\* user that does not exist, all end at the task lookup
C24_Witness ==
    \E id \in 1..Len(tasks), v \in Users :
        /\ tasks[id].deletedAt
        /\ ActiveFor(assignments, id, v) # {}
        /\ \E actor \in Users \ {v} :
              /\ TeamOf(actor) = tasks[id].teamId
              /\ ~isAdmin(actor) /\ tasks[id].createdById # actor
              /\ Path(DB, AssignReq(actor, id, v)) = <<"assign.findTask">>
              /\ Path(DB, UnassignReq(actor, id, v)) = <<"unassign.findTask">>
        /\ Path(DB, AssignReq("adm", id, NoSuchUser)) = <<"assign.findTask">>
        /\ Run(DB, UnassignReq("adm", id, v)).q.error = TaskNotFound

(***************************************************************************)
(* C25.  Every assignment that was ever created (tombstoned ones included) *)
(* names an assignee and an assigner who are both members of the team of   *)
(* the assignment's task.                                                  *)
(***************************************************************************)
C25_AssignmentWithinTeam ==
    \A i \in 1..Len(assignments) :
        LET a == assignments[i]
        IN  /\ a.taskId \in 1..Len(tasks)
            /\ a.userId \in Users
            /\ a.assignedById \in Users
            /\ TeamOf(a.userId) = tasks[a.taskId].teamId
            /\ TeamOf(a.assignedById) = tasks[a.taskId].teamId

\* a member was assigned by another member, who is refused when assigning
\* a member of another team to the same task
C25_Witness ==
    \E i \in 1..Len(assignments), v \in Users :
        /\ assignments[i].userId # assignments[i].assignedById
        /\ TeamOf(v) # tasks[assignments[i].taskId].teamId
        /\ Live(assignments[i].taskId, TeamOf(assignments[i].assignedById))
        /\ LET o == Run(DB, AssignReq(assignments[i].assignedById,
                                      assignments[i].taskId, v))
           IN  o.q.status = 404 /\ o.db = DB

(***************************************************************************)
(* C26.  Two unassign requests of the same pair (T, V), both allowed and   *)
(* issued while the assignment of (T, V) is active, whose steps interleave *)
(* in any order: exactly one of them is answered with success and the      *)
(* other is answered 404 "Assignment not found".                           *)
(***************************************************************************)
RacedUnassigns(a, b) ==
    /\ a.op = "unassign" /\ b.op = "unassign"
    /\ a.pc = "done" /\ b.pc = "done"
    /\ a.task.id # 0 /\ b.task.id # 0
    /\ a.status # 403 /\ b.status # 403
    /\ a.id = b.id
    /\ a.targetUserId = b.targetUserId
    /\ (a.existingAssignment # 0 \/ b.existingAssignment # 0)

C26_RacingUnassignsOneWinner ==
    RacedUnassigns(req["r1"], req["r2"]) =>
        \E a, b \in Reqs :
            /\ a # b
            /\ req[a].status = 200
            /\ req[b].status = 404
            /\ req[b].error = AssignmentNotFound

C28_IdentityFieldsImmutable ==
    [][ /\ \A i \in 1..Len(tasks) :
              /\ i <= Len(tasks')
              /\ tasks'[i].id = tasks[i].id
              /\ tasks'[i].teamId = tasks[i].teamId
              /\ tasks'[i].createdById = tasks[i].createdById
        /\ \A i \in 1..Len(assignments) :
              /\ i <= Len(assignments')
              /\ assignments'[i].id = assignments[i].id
              /\ assignments'[i].taskId = assignments[i].taskId
              /\ assignments'[i].userId = assignments[i].userId
              /\ assignments'[i].assignedById = assignments[i].assignedById
              /\ assignments'[i].assignedAt = assignments[i].assignedAt ]_vars

\* a task that a member other than its creator can update, holding an
\* assignment made by another member that was unassigned since
C28_Witness ==
    \E id \in 1..Len(tasks), actor \in Users, i \in 1..Len(assignments) :
        /\ actor # tasks[id].createdById
        /\ Run(DB, NewReq("update", actor, id, NULL, "t2")).q.status = 200
        /\ Run(DB, NewReq("update", actor, id, NULL, "t2")).db.tasks[id].title
               # tasks[id].title
        /\ assignments[i].taskId = id
        /\ assignments[i].userId # assignments[i].assignedById
        /\ assignments[i].deletedAt

(***************************************************************************)
(* C29.  An assign or unassign whose target is the caller's own id is the  *)
(* same as the request with the target omitted: from every state, for      *)
(* every caller and task, the two have the same answer and the same effect *)
(* on the database, and neither is refused by the creator-or-admin policy  *)
(* (never 403).                                                            *)
(***************************************************************************)
C29_OwnIdIsOmittedTarget ==
    \A op \in {"assign", "unassign"}, actor \in Users, id \in TaskIds :
        LET explicit == Run(DB, NewReq(op, actor, id, actor, NULL))
            omitted == Run(DB, NewReq(op, actor, id, NULL, NULL))
        IN  /\ Answer(explicit.q) = Answer(omitted.q)
            /\ explicit.db = omitted.db
            /\ explicit.q.targetUserId = omitted.q.targetUserId
            /\ explicit.q.status # 403
            /\ omitted.q.status # 403

\* a member who is neither creator nor admin and is assigned to a live
\* task: the unassign succeeds in both forms, and after it the assign is
\* answered alike in both forms
C29_Witness ==
    \E actor \in Users, id \in TaskIds :
        /\ Live(id, TeamOf(actor))
        /\ ~Privileged(actor, id)
        /\ ActiveFor(assignments, id, actor) # {}
        /\ Run(DB, UnassignReq(actor, id, actor)).q.status = 200
        /\ Run(DB, UnassignReq(actor, id, NULL)).q.status = 200
        /\ Run(DB, AssignReq(actor, id, actor)).q.error = AlreadyAssigned
        /\ Run(DB, AssignReq(actor, id, NULL)).q.error = AlreadyAssigned

(***************************************************************************)
(* C30.  When the server answers tasks.unassign with its success response, *)
(* TasksStore.unassign resolves without throwing, and the task kept in the *)
(* store no longer lists the unassigned user among its assignees.          *)
(***************************************************************************)
C30_StoreReflectsUnassign ==
    \A id \in DOMAIN store, userId \in StoreTargets :
        LET res == client_post(DB, UnassignReq(currentUser, id, userId))
            called == TasksStore_unassign(DB, store, id, userId)
        IN  ~res.rejected =>
                /\ called.thrown = NULL
                /\ \A k \in 1..Len(called.store[id].assignees) :
                      called.store[id].assignees[k] # userId

====
